---------------------------- MODULE Spec2Model ----------------------------
(***************************************************************************)
(* Model of the video assembly engine (assembly.py).                       *)
(*                                                                         *)
(* Four state machines share this module:                                  *)
(*   assemble_video: audio load, image check, _resolve_image_durations,    *)
(*           the per-scene clip loop, the background composition, the      *)
(*           caption overlays, the music mix and the final render.         *)
(*           Spec draws the scene inputs widely, SpecOut the caption,      *)
(*           music and encoder inputs, SpecScenario runs one fixed input;  *)
(*   SpecKB  one KenBurnsClip and the frames make_frame renders for it;    *)
(*   SpecCap one call of _build_caption_clips;                             *)
(*   SpecWrap the word wrap loop of _render_caption_frame.                 *)
(*                                                                         *)
(* Times are exact rationals.  Inside a run every time value x (seconds)   *)
(* is held as the integer x * time_den, where time_den is fixed by         *)
(* _resolve_image_durations (it is the common denominator of the display   *)
(* durations and of CROSSFADE_DURATION).  Python floats carry a relative   *)
(* rounding error of 2^-53 on these values; where a float result is        *)
(* truncated by int() the model keeps both outcomes the rounding can        *)
(* produce (see FloatInt).                                                 *)
(***************************************************************************)
EXTENDS Integers, Sequences, FiniteSets, TLC

\* ------------------------------------------------------------------------
\* Bounds of the model
\* ------------------------------------------------------------------------
MaxImages == 3

MaxWeight == 2

AudioStep == 3

MaxAudioSteps == 6

MaxDurationTicks == 3

MaxDirection == 8

\* SpecOut: images, music track length (s)
MaxOutImages == 2

MaxMusic == 4

\* SpecCap: chunks per call, chunk times (s)
MaxChunks == 2

MaxCaptionTime == 3

\* SpecWrap: words per caption, width of a space in the font (px)
MaxWords == 8

\* longest image_prompts / scene_timing list an LLM response carries
MaxPrompts == 10

\* longest list handed to enrich_image_prompts, longest prompt (tokens)
MaxPromptList == 2

MaxPromptLen == 2

\* longest narration, in whitespace-separated tokens
MaxNarration == 5

SpaceWidth == 10

\* ------------------------------------------------------------------------
\* Configuration constants of assembly.py
\* ------------------------------------------------------------------------
VIDEO_WIDTH == 1080

VIDEO_HEIGHT == 1920

\* ZOOM_FACTOR = 1.20 = ZoomNum / ZoomDen
ZoomNum == 6

ZoomDen == 5

PAN_RANGE_X == 60

PAN_RANGE_Y == 40

MIN_IMAGE_DURATION == 4

MAX_IMAGE_DURATION == 14

\* CROSSFADE_DURATION = 1.2 = CrossfadeNum / CrossfadeDen
CrossfadeNum == 6

CrossfadeDen == 5

\* ------------------------------------------------------------------------
\* Arithmetic helpers
\* ------------------------------------------------------------------------
Max(a, b) == IF a >= b THEN a ELSE b

Min(a, b) == IF a <= b THEN a ELSE b

RECURSIVE SumSeq(_)
\* Python sum() over a list
SumSeq(s) == IF Len(s) = 0 THEN 0 ELSE Head(s) + SumSeq(Tail(s))

\* sum of the first k entries of s
SumPrefix(s, k) == SumSeq(SubSeq(s, 1, k))

\* Python int() of the exact quotient n / d (d > 0): truncation toward zero
Trunc(n, d) == IF n >= 0 THEN n \div d ELSE -((-n) \div d)

\* int() of a float that approximates n / d.  At the exact operands
\* (inexact = FALSE) the float equals the quotient.  Otherwise the float may
\* fall just short of an integral quotient, and int() then yields the next
\* integer toward zero.
FloatInt(n, d, inexact) ==
    LET q == Trunc(n, d)
    IN  IF inexact /\ n % d = 0 /\ q # 0
        THEN {q, IF q > 0 THEN q - 1 ELSE q + 1}
        ELSE {q}

\* ------------------------------------------------------------------------
\* State
\* ------------------------------------------------------------------------
VARIABLES
    \* assemble_video: inputs
    num_images,       \* len(image_paths)
    audio_ok,         \* AudioFileClip(audio_path) loads
    audio_duration,   \* audio_clip.duration, seconds
    timing_present,   \* scene_timing is not None
    scene_timing,     \* the weights (<<>> when None or empty)
    \* assemble_video: locals
    pc,               \* position in assemble_video
    total_duration,   \* seconds
    time_den,         \* time values below are multiples of 1/time_den s
    image_durations,  \* display durations
    scene_i,          \* loop index i (0-based)
    current_time,     \* running start offset
    kb_clips,         \* clips collected for the background composition
    scene_fault,      \* what happened while building each scene so far
    result,           \* "none" (None, or not returned yet) | "crashed"
                      \* (an exception left assemble_video) | "output"
    \* KenBurnsClip
    kb_img,           \* the array handed to the constructor
    kb_prepared,      \* kb_img came from _prepare_image
    kb_src,           \* self.src_w, self.src_h
    kb_direction,     \* the direction argument
    kb_duration,      \* self.duration, ticks
    kb_frame,         \* the last frame geometry make_frame computed
    \* assemble_video: inputs of the caption, music and render steps
    caption_chunks,   \* the caption_chunks argument
    music_dir,        \* MUSIC_DIR: "absent" | "empty" | "tracks"
    music_duration,   \* bg_music.duration of the chosen track, seconds
    music_ok,         \* the chosen track loads and processes
    encode_outcome,   \* what write_videofile does
    \* assemble_video: locals of those steps
    background_duration, \* background.duration
    caption_clips,    \* the list _build_caption_clips returned
    final_duration,   \* final_video.duration
    final_audio,      \* what final_audio is made of
    encode_called,    \* write_videofile was invoked
    output_file,      \* the file at output_path
    \* _build_caption_clips
    cc_chunks,        \* the caption_chunks argument
    cc_total,         \* the total_duration argument, seconds
    cc_i,             \* chunks consumed by the loop
    cc_clips,         \* the local caption_clips
    cc_state,         \* "loop" | "returned"
    \* _render_caption_frame, word wrap
    wr_frame_w,       \* frame_size[0]
    wr_words,         \* widths of the words of text.split(), px
    wr_i,             \* words consumed by the loop
    wr_current,       \* current_line (word positions)
    wr_lines,         \* lines
    wr_state,         \* "loop" | "wrapped"
    \* brain.generate_script
    br_ollama,        \* _ensure_ollama_running() returns True
    br_pc,            \* "start" | "attempt" | "returned"
    br_log,           \* one entry per LLM attempt made
    br_sizes,         \* list lengths of the response the script came from
    br_result,        \* the value returned
    \* brain.enrich_image_prompts applied once and twice
    en_input,         \* the prompts argument
    en_once,          \* enrich(p)
    en_twice,         \* enrich(enrich(p))
    en_state,         \* "input" | "once" | "twice"
    \* voice.process_voice
    vo_narration,     \* narration.split(): "w" a token with word characters,
                      \* "p" a token of punctuation or symbols only
    vo_edge_ok,       \* Edge TTS writes a non-empty file
    vo_macos_ok,      \* the macOS fallback writes a non-empty file
    vo_duration,      \* _get_audio_duration(audio_path), ms
    vo_pc,            \* "audio" | "timestamps" | "returned"
    vo_audio,         \* audio_path: "unset" | "none" | "path"
    vo_chunks,        \* chunks: [none, list]
    \* main.run_pipeline
    pl_script_file,   \* script_file is given
    pl_review,        \* review_mode
    pl_placeholders,  \* use_placeholders
    pl_skip_video,    \* skip_video
    pl_pc,            \* "stage1" | "review" | "stage2" | "stage3" |
                      \* "stage4" | "returned"
    pl_script,        \* "unset" | "complete" | "incomplete"
    pl_invoked,       \* the stages invoked so far, in order
    pl_failed,        \* for each invoked stage: it failed
    pl_result         \* "running" | "true" | "false" | "raised"

asmVars == <<num_images, audio_ok, audio_duration, timing_present, scene_timing,
             pc, total_duration, time_den, image_durations, scene_i,
             current_time, kb_clips, scene_fault, result>>

kbVars == <<kb_img, kb_prepared, kb_src, kb_direction, kb_duration, kb_frame>>

outVars == <<caption_chunks, music_dir, music_duration, music_ok,
             encode_outcome, background_duration, caption_clips,
             final_duration, final_audio, encode_called, output_file>>

capVars == <<cc_chunks, cc_total, cc_i, cc_clips, cc_state>>

wrapVars == <<wr_frame_w, wr_words, wr_i, wr_current, wr_lines, wr_state>>

brainVars == <<br_ollama, br_pc, br_log, br_sizes, br_result>>

enVars == <<en_input, en_once, en_twice, en_state>>

voiceVars == <<vo_narration, vo_edge_ok, vo_macos_ok, vo_duration, vo_pc,
               vo_audio, vo_chunks>>

pipeVars == <<pl_script_file, pl_review, pl_placeholders, pl_skip_video,
              pl_pc, pl_script, pl_invoked, pl_failed, pl_result>>

\* the modules around assembly.py
restVars == <<brainVars, enVars, voiceVars, pipeVars>>

\* everything outside assemble_video
sideVars == <<kbVars, capVars, wrapVars, restVars>>

vars == <<asmVars, outVars, kbVars, capVars, wrapVars, restVars>>

\* ------------------------------------------------------------------------
\* _resolve_image_durations
\* ------------------------------------------------------------------------
\* the guard of the weighted path: scene_timing is truthy, has one weight
\* per image, and every weight is strictly positive
WeightsUsable(n, present, w) ==
    /\ present
    /\ Len(w) > 0
    /\ Len(w) = n
    /\ \A k \in 1..Len(w) : w[k] > 0

\* max(MIN_IMAGE_DURATION, (t / total_weight) * audio_duration) for every t,
\* as numerators over total_weight
RawDurations(w, A) ==
    LET W == SumSeq(w)
    IN  [k \in 1..Len(w) |-> Max(MIN_IMAGE_DURATION * W, w[k] * A)]

\* the scale factor applied to the shares before the floor
ScaledShares(w, A) ==
    LET R == SumSeq(RawDurations(w, A))
    IN  [err |-> FALSE,
         den |-> CrossfadeDen * R,
         nums |-> [k \in 1..Len(w) |-> CrossfadeDen * w[k] * A * A]]

\* durations with the rescale step skipped
UnscaledDurations(w, A) ==
    [err |-> FALSE,
     den |-> CrossfadeDen * SumSeq(w),
     nums |-> [k \in 1..Len(w) |-> CrossfadeDen * RawDurations(w, A)[k]]]

\* the weighted path: raw durations, then scale = audio_duration / sum(raw)
\* and d * scale for every d.  raw[k]/W * (A*W/R) = raw[k]*A / R.
WeightedDurations(w, A) ==
    LET raw == RawDurations(w, A)
        R == SumSeq(raw)
    IN  IF R = 0
        THEN [err |-> TRUE, den |-> 1, nums |-> <<>>]
        ELSE [err |-> FALSE,
              den |-> CrossfadeDen * R,
              nums |-> [k \in 1..Len(w) |-> CrossfadeDen * raw[k] * A]]

\* equal distribution with the lower clamp forgotten
UnclampedEqualDurations(n, A) ==
    IF n = 0
    THEN [err |-> TRUE, den |-> 1, nums |-> <<>>]
    ELSE [err |-> FALSE,
          den |-> CrossfadeDen * n,
          nums |-> [k \in 1..n |->
                      Min(MAX_IMAGE_DURATION * CrossfadeDen * n, CrossfadeDen * A)]]

\* the fallback path: base = audio_duration / num_images, clamped, repeated
EqualDurations(n, A) ==
    IF n = 0
    THEN [err |-> TRUE, den |-> 1, nums |-> <<>>]
    ELSE LET den == CrossfadeDen * n
             base == CrossfadeDen * A
             clamped == Max(MIN_IMAGE_DURATION * den,
                            Min(MAX_IMAGE_DURATION * den, base))
         IN  [err |-> FALSE, den |-> den, nums |-> [k \in 1..n |-> clamped]]

ResolveImageDurations(n, A, present, w) ==
    IF WeightsUsable(n, present, w)
    THEN WeightedDurations(w, A)
    ELSE EqualDurations(n, A)

\* CROSSFADE_DURATION in units of 1/den s (den is a multiple of CrossfadeDen)
Crossfade(den) == CrossfadeNum * (den \div CrossfadeDen)

\* ------------------------------------------------------------------------
\* assemble_video
\* ------------------------------------------------------------------------
Faults == {"none", "clip", "image"}

\* current_time advanced by the clip duration instead of the display duration
NextStartByClip(now, display, clip) == now + clip

\* current_time += image_durations[i]
NextStart(now, display, clip) == now + display

\* the animated clip of scene i: KenBurnsClip, fadein when i > 0, fadeout
\* when i < num_images - 1, set_start(current_time)
AnimatedClip(i, n, clip_duration, now, den) ==
    [scene |-> i, kind |-> "kb", start |-> now, duration |-> clip_duration,
     direction |-> i,
     fadein |-> IF i > 0 THEN Crossfade(den) ELSE 0,
     fadeout |-> IF i < n - 1 THEN Crossfade(den) ELSE 0]

\* the static fallback clip of scene i: ImageClip, set_duration, set_start
StaticClip(i, clip_duration, now) ==
    [scene |-> i, kind |-> "static", start |-> now, duration |-> clip_duration,
     direction |-> -1, fadein |-> 0, fadeout |-> 0]

ScenarioInputs ==
    /\ num_images \in 0..MaxImages
    /\ audio_ok \in BOOLEAN
    /\ audio_duration \in {AudioStep * k : k \in 1..MaxAudioSteps}
    /\ timing_present \in BOOLEAN
    /\ scene_timing \in UNION {[1..l -> (-1)..MaxWeight] : l \in 0..MaxImages}
    /\ (~timing_present => scene_timing = <<>>)

AsmStart ==
    /\ pc = "load_audio"
    /\ total_duration = 0
    /\ time_den = 1
    /\ image_durations = <<>>
    /\ scene_i = 0
    /\ current_time = 0
    /\ kb_clips = <<>>
    /\ scene_fault = <<>>
    /\ result = "none"

\* the assembly machine at rest (used by SpecKB)
AsmIdle ==
    /\ num_images = 0
    /\ audio_ok = FALSE
    /\ audio_duration = AudioStep
    /\ timing_present = FALSE
    /\ scene_timing = <<>>
    /\ AsmStart

\* try: AudioFileClip(...); total_duration = audio_clip.duration
\* except: return None
LoadAudio ==
    /\ pc = "load_audio"
    /\ IF audio_ok
       THEN /\ total_duration' = audio_duration
            /\ pc' = "check_images"
       ELSE /\ total_duration' = total_duration
            /\ pc' = "aborted"
    /\ UNCHANGED <<num_images, audio_ok, audio_duration, timing_present,
                   scene_timing, time_den, image_durations, scene_i,
                   current_time, kb_clips, scene_fault, result>>
    /\ UNCHANGED <<outVars, sideVars>>

\* if not image_paths: return None
CheckImages ==
    /\ pc = "check_images"
    /\ pc' = IF num_images = 0 THEN "aborted" ELSE "resolve"
    /\ UNCHANGED <<num_images, audio_ok, audio_duration, timing_present,
                   scene_timing, total_duration, time_den, image_durations,
                   scene_i, current_time, kb_clips, scene_fault, result>>
    /\ UNCHANGED <<outVars, sideVars>>

\* image_durations = _resolve_image_durations(num_images, total_duration,
\* scene_timing); kb_clips = []; current_time = 0.0
Resolve ==
    /\ pc = "resolve"
    /\ LET r == ResolveImageDurations(num_images, total_duration,
                                      timing_present, scene_timing)
       IN  IF r.err
           THEN /\ pc' = "aborted"
                /\ result' = "crashed"
                /\ UNCHANGED <<time_den, image_durations>>
           ELSE /\ pc' = "build"
                /\ result' = result
                /\ time_den' = r.den
                /\ image_durations' = r.nums
    /\ scene_i' = 0
    /\ current_time' = 0
    /\ kb_clips' = <<>>
    /\ UNCHANGED <<num_images, audio_ok, audio_duration, timing_present,
                   scene_timing, total_duration, scene_fault>>
    /\ UNCHANGED <<outVars, sideVars>>

\* one iteration of "for i, img_path in enumerate(image_paths)".
\* fault = "none":  the try block completes, the animated clip is appended;
\* fault = "clip":  building the animated clip raises after the image was
\*                  prepared; the static fallback is appended;
\* fault = "image": _prepare_image raises, in the try block and again in the
\*                  fallback; nothing is appended.
BuildScene ==
    /\ pc = "build"
    /\ scene_i < num_images
    /\ \E fault \in Faults :
         LET display == image_durations[scene_i + 1]
             clip_duration == display + Crossfade(time_den)
         IN  /\ kb_clips' =
                  CASE fault = "none" ->
                         Append(kb_clips, AnimatedClip(scene_i, num_images,
                                    clip_duration, current_time, time_den))
                    [] fault = "clip" ->
                         Append(kb_clips, StaticClip(scene_i, clip_duration,
                                                     current_time))
                    [] fault = "image" -> kb_clips
             /\ scene_fault' = Append(scene_fault, fault)
             /\ current_time' = NextStart(current_time, display, clip_duration)
    /\ scene_i' = scene_i + 1
    /\ UNCHANGED <<num_images, audio_ok, audio_duration, timing_present,
                   scene_timing, pc, total_duration, time_den,
                   image_durations, result>>
    /\ UNCHANGED <<outVars, sideVars>>

\* the largest of a non-empty set of numbers
MaxOf(S) == CHOOSE x \in S : \A y \in S : y <= x

\* CompositeVideoClip(clips).duration: the latest end of its clips
CompositeDuration(ends) == MaxOf(ends)

\* set_duration that leaves the clip's own duration in place
SetDurationIgnored(duration, T) == duration

\* clip.set_duration(T)
SetDuration(duration, T) == T

\* after the loop: if not kb_clips: return None
\* else background = CompositeVideoClip(kb_clips).set_duration(total_duration)
Composite ==
    /\ pc = "build"
    /\ scene_i = num_images
    /\ IF kb_clips = <<>>
       THEN /\ pc' = "aborted"
            /\ background_duration' = background_duration
       ELSE /\ pc' = "composited"
            /\ background_duration' =
                 SetDuration(
                     CompositeDuration({kb_clips[j].start + kb_clips[j].duration
                                           : j \in 1..Len(kb_clips)}),
                     total_duration * time_den)
    /\ UNCHANGED <<num_images, audio_ok, audio_duration, timing_present,
                   scene_timing, total_duration, time_den, image_durations,
                   scene_i, current_time, kb_clips, scene_fault, result>>
    /\ UNCHANGED <<caption_chunks, music_dir, music_duration, music_ok,
                   encode_outcome, caption_clips, final_duration, final_audio,
                   encode_called, output_file>>
    /\ UNCHANGED sideVars

\* ------------------------------------------------------------------------
\* _build_caption_clips
\* ------------------------------------------------------------------------
\* A caption text is a sequence of tokens: "w" a word, "_" white space.
RECURSIVE LStrip(_)
LStrip(text) ==
    IF Len(text) > 0 /\ Head(text) = "_" THEN LStrip(Tail(text)) ELSE text

RECURSIVE RStrip(_)
RStrip(text) ==
    IF Len(text) > 0 /\ text[Len(text)] = "_"
    THEN RStrip(SubSeq(text, 1, Len(text) - 1))
    ELSE text

\* str.strip()
Strip(text) == RStrip(LStrip(text))

NoClip == [kind |-> "skip", chunk |-> 0, start |-> 0, duration |-> 0]

\* the loop body with the text used as given
CaptionStepUntrimmed(chunk, k, total) ==
    LET text == chunk.text
        start == chunk.start
        end == Min(chunk.end, total)
        duration == end - start
    IN  IF duration <= 0 \/ text = <<>>
        THEN NoClip
        ELSE IF ~chunk.ok
             THEN [kind |-> "raise", chunk |-> k, start |-> 0, duration |-> 0]
             ELSE [kind |-> "clip", chunk |-> k, start |-> start,
                   duration |-> duration]

\* the loop body with the end of the chunk used as given
CaptionStepUnclamped(chunk, k, total) ==
    LET text == Strip(chunk.text)
        start == chunk.start
        end == chunk.end
        duration == end - start
    IN  IF duration <= 0 \/ text = <<>>
        THEN NoClip
        ELSE IF ~chunk.ok
             THEN [kind |-> "raise", chunk |-> k, start |-> 0, duration |-> 0]
             ELSE [kind |-> "clip", chunk |-> k, start |-> start,
                   duration |-> duration]

\* the body of "for chunk in caption_chunks" for the k-th chunk: skip it
\* (continue), or render its frame and schedule the clip
\* (set_start(start), set_duration(duration)); rendering may raise
\* (chunk.ok = FALSE), and nothing in the loop catches that
CaptionStep(chunk, k, total) ==
    LET text == Strip(chunk.text)
        start == chunk.start
        end == Min(chunk.end, total)
        duration == end - start
    IN  IF duration <= 0 \/ text = <<>>
        THEN NoClip
        ELSE IF ~chunk.ok
             THEN [kind |-> "raise", chunk |-> k, start |-> 0, duration |-> 0]
             ELSE [kind |-> "clip", chunk |-> k, start |-> start,
                   duration |-> duration]

RECURSIVE CaptionLoop(_, _, _, _)
\* the loop from chunk k on, clips holding what was appended so far
CaptionLoop(chunks, k, total, clips) ==
    IF k > Len(chunks)
    THEN [raised |-> FALSE, clips |-> clips]
    ELSE LET r == CaptionStep(chunks[k], k, total)
         IN  CASE r.kind = "raise" -> [raised |-> TRUE, clips |-> <<>>]
               [] r.kind = "skip" -> CaptionLoop(chunks, k + 1, total, clips)
               [] r.kind = "clip" ->
                    CaptionLoop(chunks, k + 1, total, Append(clips, r))

\* _build_caption_clips(caption_chunks, total_duration)
BuildCaptionClips(chunks, total) == CaptionLoop(chunks, 1, total, <<>>)

CaptionTexts == {<<"_", "w", "_">>, <<"_">>, <<>>}

CCInit ==
    /\ cc_total \in 1..(MaxCaptionTime - 1)
    /\ cc_chunks \in UNION {[1..l -> [text : CaptionTexts,
                                       start : 0..MaxCaptionTime,
                                       end : 0..MaxCaptionTime,
                                       ok : {TRUE}]] : l \in 0..MaxChunks}
    /\ cc_i = 0
    /\ cc_clips = <<>>
    /\ cc_state = "loop"

\* the caption machine at rest
CCIdle ==
    /\ cc_total = 1
    /\ cc_chunks = <<>>
    /\ cc_i = 0
    /\ cc_clips = <<>>
    /\ cc_state = "loop"

\* one iteration of "for chunk in caption_chunks"
CaptionChunk ==
    /\ cc_state = "loop"
    /\ cc_i < Len(cc_chunks)
    /\ LET r == CaptionStep(cc_chunks[cc_i + 1], cc_i + 1, cc_total)
       IN  /\ r.kind # "raise"
           /\ cc_clips' = IF r.kind = "clip" THEN Append(cc_clips, r)
                                             ELSE cc_clips
    /\ cc_i' = cc_i + 1
    /\ UNCHANGED <<cc_chunks, cc_total, cc_state>>
    /\ UNCHANGED <<asmVars, outVars, kbVars, wrapVars, restVars>>

\* return caption_clips
CaptionReturn ==
    /\ cc_state = "loop"
    /\ cc_i = Len(cc_chunks)
    /\ cc_state' = "returned"
    /\ UNCHANGED <<cc_chunks, cc_total, cc_i, cc_clips>>
    /\ UNCHANGED <<asmVars, outVars, kbVars, wrapVars, restVars>>

\* ------------------------------------------------------------------------
\* _prepare_image
\* ------------------------------------------------------------------------
\* target_w = int(VIDEO_WIDTH * ZOOM_FACTOR) + PAN_RANGE_X * 2
TargetW == Trunc(VIDEO_WIDTH * ZoomNum, ZoomDen) + PAN_RANGE_X * 2

\* target_h = int(VIDEO_HEIGHT * ZOOM_FACTOR) + PAN_RANGE_Y * 2
TargetH == Trunc(VIDEO_HEIGHT * ZoomNum, ZoomDen) + PAN_RANGE_Y * 2

\* cover-fit resize, then the centred crop box (left, top, left + target_w,
\* top + target_h); the array returned has the size of the box
PrepareImage(orig) ==
    LET byWidth == TargetW * orig.h >= TargetH * orig.w
        new_w == IF byWidth THEN TargetW ELSE Trunc(orig.w * TargetH, orig.h)
        new_h == IF byWidth THEN Trunc(orig.h * TargetW, orig.w) ELSE TargetH
        left == (new_w - TargetW) \div 2
        top == (new_h - TargetH) \div 2
    IN  [w |-> (left + TargetW) - left, h |-> (top + TargetH) - top]

\* sizes of source images
OrigSizes == {[w |-> 1024, h |-> 1024], [w |-> 768, h |-> 1344],
              [w |-> 1920, h |-> 1080]}

\* arrays handed to KenBurnsClip directly
RawCanvases == {[w |-> 1080, h |-> 1920], [w |-> 1100, h |-> 1950],
                [w |-> 1000, h |-> 1700], [w |-> 1360, h |-> 2450]}

\* ------------------------------------------------------------------------
\* KenBurnsClip
\* ------------------------------------------------------------------------
\* width and height taken from the array shape in the wrong order
SrcDimsSwapped(img) == [w |-> img.h, h |-> img.w]

\* self.src_h, self.src_w = img_array.shape[:2]
SrcDims(img) == [w |-> img.w, h |-> img.h]

\* the 8 profiles (start_z, end_z, spx, epx, spy, epy); zooms are
\* numerators over ZoomDen
Directions ==
    << [sz |-> ZoomDen, ez |-> ZoomNum, spx |-> 0, epx |-> PAN_RANGE_X,
        spy |-> 0, epy |-> PAN_RANGE_Y],
       [sz |-> ZoomNum, ez |-> ZoomDen, spx |-> PAN_RANGE_X, epx |-> 0,
        spy |-> PAN_RANGE_Y, epy |-> 0],
       [sz |-> ZoomDen, ez |-> ZoomNum, spx |-> PAN_RANGE_X, epx |-> 0,
        spy |-> 0, epy |-> PAN_RANGE_Y],
       [sz |-> ZoomNum, ez |-> ZoomDen, spx |-> 0, epx |-> PAN_RANGE_X,
        spy |-> PAN_RANGE_Y, epy |-> 0],
       [sz |-> ZoomDen, ez |-> ZoomNum, spx |-> 0, epx |-> 0,
        spy |-> PAN_RANGE_Y, epy |-> 0],
       [sz |-> ZoomNum, ez |-> ZoomDen, spx |-> 0, epx |-> 0,
        spy |-> 0, epy |-> PAN_RANGE_Y],
       [sz |-> ZoomDen, ez |-> ZoomNum, spx |-> PAN_RANGE_X \div 2,
        epx |-> PAN_RANGE_X, spy |-> 0, epy |-> PAN_RANGE_Y],
       [sz |-> ZoomNum, ez |-> ZoomDen, spx |-> PAN_RANGE_X,
        epx |-> PAN_RANGE_X \div 2, spy |-> PAN_RANGE_Y, epy |-> 0] >>

\* the index held at the last profile instead of wrapping around
ProfileClamped(direction) ==
    Directions[Min(direction, Len(Directions) - 1) + 1]

\* directions[direction % len(directions)]
Profile(direction) == Directions[(direction % Len(Directions)) + 1]

\* progress = t / self.duration, as a numerator over duration
Progress(t, duration) == t

\* interpolation that runs from the end value back to the start value
LerpReversed(a, b, progress, duration) == b * duration + (a - b) * progress

\* a + (b - a) * progress, as a numerator over duration
Lerp(a, b, progress, duration) == a * duration + (b - a) * progress

\* the window without the step that restores the requested size
CropWindowNoShift(src_len, center, crop) ==
    LET lo == Max(0, center - crop \div 2)
        hi == Min(src_len, lo + crop)
    IN  [lo |-> lo, hi |-> hi]

\* x1 = max(0, center - crop // 2); x2 = min(src, x1 + crop);
\* if x2 - x1 < crop: x1 = max(0, x2 - crop)
CropWindow(src_len, center, crop) ==
    LET lo == Max(0, center - crop \div 2)
        hi == Min(src_len, lo + crop)
    IN  [lo |-> IF hi - lo < crop THEN Max(0, hi - crop) ELSE lo, hi |-> hi]

NoFrame ==
    [ok |-> FALSE, t |-> 0, progress |-> 0, zoom |-> 0, pan_x |-> 0, pan_y |-> 0,
     crop_w |-> 0, crop_h |-> 0, x1 |-> 0, y1 |-> 0, x2 |-> 0, y2 |-> 0]

\* the times make_frame is evaluated at, in ticks
FrameTimes(duration) == (-duration)..(2 * duration)

KBInit ==
    /\ kb_prepared \in BOOLEAN
    /\ kb_img \in IF kb_prepared
                  THEN {PrepareImage(o) : o \in OrigSizes}
                  ELSE RawCanvases
    /\ kb_src = SrcDims(kb_img)
    /\ kb_direction \in 0..MaxDirection
    /\ kb_duration \in 1..MaxDurationTicks
    /\ kb_frame = NoFrame

\* the clip machine at rest (used by Spec)
KBIdle ==
    /\ kb_prepared = FALSE
    /\ kb_img = [w |-> VIDEO_WIDTH, h |-> VIDEO_HEIGHT]
    /\ kb_src = SrcDims(kb_img)
    /\ kb_direction = 0
    /\ kb_duration = 1
    /\ kb_frame = NoFrame

\* make_frame(t): the geometry of the frame at time t.  zoom is held as a
\* numerator over ZoomDen * duration.
MakeFrame ==
    /\ \E t \in FrameTimes(kb_duration) :
         LET p == Profile(kb_direction)
             progress == Progress(t, kb_duration)
             inexact == t # 0 /\ t # kb_duration
             zoom == Lerp(p.sz, p.ez, progress, kb_duration)
         IN  \E pan_x \in FloatInt(Lerp(p.spx, p.epx, progress, kb_duration),
                                   kb_duration, inexact),
                pan_y \in FloatInt(Lerp(p.spy, p.epy, progress, kb_duration),
                                   kb_duration, inexact),
                crop_w \in FloatInt(VIDEO_WIDTH * ZoomDen * kb_duration,
                                    zoom, inexact),
                crop_h \in FloatInt(VIDEO_HEIGHT * ZoomDen * kb_duration,
                                    zoom, inexact) :
               LET wx == CropWindow(kb_src.w, kb_src.w \div 2 + pan_x, crop_w)
                   wy == CropWindow(kb_src.h, kb_src.h \div 2 + pan_y, crop_h)
               IN  kb_frame' = [ok |-> TRUE, t |-> t, progress |-> progress,
                                zoom |-> zoom,
                                pan_x |-> pan_x, pan_y |-> pan_y,
                                crop_w |-> crop_w, crop_h |-> crop_h,
                                x1 |-> wx.lo, y1 |-> wy.lo,
                                x2 |-> wx.hi, y2 |-> wy.hi]
    /\ UNCHANGED <<kb_img, kb_prepared, kb_src, kb_direction, kb_duration>>
    /\ UNCHANGED <<asmVars, outVars, capVars, wrapVars, restVars>>


\* ------------------------------------------------------------------------
\* assemble_video: captions, music, render
\* ------------------------------------------------------------------------
\* caption_clips = _build_caption_clips(caption_chunks, total_duration);
\* final_video = CompositeVideoClip([background] + caption_clips).
\* An exception raised while a caption is rendered leaves assemble_video.
BuildCaptions ==
    /\ pc = "composited"
    /\ LET r == BuildCaptionClips(caption_chunks, total_duration)
       IN  IF r.raised
           THEN /\ pc' = "aborted"
                /\ result' = "crashed"
                /\ UNCHANGED <<caption_clips, final_duration>>
           ELSE /\ pc' = "captioned"
                /\ result' = result
                /\ caption_clips' = r.clips
                /\ final_duration' =
                     CompositeDuration(
                        {background_duration} \cup
                        {(r.clips[j].start + r.clips[j].duration) * time_den
                            : j \in 1..Len(r.clips)})
    /\ UNCHANGED <<num_images, audio_ok, audio_duration, timing_present,
                   scene_timing, total_duration, time_den, image_durations,
                   scene_i, current_time, kb_clips, scene_fault>>
    /\ UNCHANGED <<caption_chunks, music_dir, music_duration, music_ok,
                   encode_outcome, background_duration, final_audio,
                   encode_called, output_file>>
    /\ UNCHANGED sideVars

\* the music clip left at the length the track or the loop happens to have
ProcessMusicUntrimmed(m, T) ==
    IF m < T
    THEN [duration |-> (T \div m + 1) * m, looped |-> TRUE]
    ELSE [duration |-> m, looped |-> FALSE]

\* if bg_music.duration < total_duration: audio_loop(bg_music,
\* duration=total_duration), which repeats the track int(T / m) + 1 times
\* and sets the duration to T; else bg_music.subclip(0, total_duration).
\* volumex and audio_fadeout keep the duration.
ProcessMusic(m, T) ==
    IF m < T
    THEN [duration |-> SetDuration((T \div m + 1) * m, T), looped |-> TRUE]
    ELSE [duration |-> T - 0, looped |-> FALSE]

NoAudio ==
    [narration |-> FALSE, music |-> FALSE, music_len |-> 0, looped |-> FALSE]

\* the mix made of the music track alone
FinalAudioMusicOnly(dir, ok, m, T) ==
    IF dir = "tracks" /\ ok
    THEN [narration |-> FALSE, music |-> TRUE,
          music_len |-> ProcessMusic(m, T).duration,
          looped |-> ProcessMusic(m, T).looped]
    ELSE [narration |-> TRUE, music |-> FALSE, music_len |-> 0,
          looped |-> FALSE]

\* final_audio = audio_clip; if MUSIC_DIR.exists() and it holds .mp3/.wav
\* files: try: final_audio = CompositeAudioClip([audio_clip, bg_music])
\* except: keep the narration
FinalAudio(dir, ok, m, T) ==
    IF dir = "tracks" /\ ok
    THEN [narration |-> TRUE, music |-> TRUE,
          music_len |-> ProcessMusic(m, T).duration,
          looped |-> ProcessMusic(m, T).looped]
    ELSE [narration |-> TRUE, music |-> FALSE, music_len |-> 0,
          looped |-> FALSE]

\* the music section, then final_video.set_audio(final_audio) and
\* final_video.set_duration(total_duration)
MixMusic ==
    /\ pc = "captioned"
    /\ final_audio' = FinalAudio(music_dir, music_ok, music_duration,
                                 total_duration)
    /\ final_duration' = SetDuration(final_duration,
                                     total_duration * time_den)
    /\ pc' = "mixed"
    /\ UNCHANGED <<num_images, audio_ok, audio_duration, timing_present,
                   scene_timing, total_duration, time_den, image_durations,
                   scene_i, current_time, kb_clips, scene_fault, result>>
    /\ UNCHANGED <<caption_chunks, music_dir, music_duration, music_ok,
                   encode_outcome, background_duration, caption_clips,
                   encode_called, output_file>>
    /\ UNCHANGED sideVars

EncodeOutcomes == {"ok", "nofile", "fail_clean", "fail_partial"}

\* try: final_video.write_videofile(...); return output_path if it exists,
\* else None.  except Exception: return None.  Nothing removes what the
\* writer left at output_path.
\*   "ok":           the file is written;
\*   "nofile":       the writer returns but no file exists;
\*   "fail_clean":   the writer raises before it created the file;
\*   "fail_partial": the writer raises after it started the file.
Render ==
    /\ pc = "mixed"
    /\ encode_called' = TRUE
    /\ CASE encode_outcome = "ok" ->
              /\ output_file' = "complete"
              /\ result' = "output"
              /\ pc' = "done"
         [] encode_outcome = "nofile" ->
              /\ output_file' = output_file
              /\ result' = "none"
              /\ pc' = "aborted"
         [] encode_outcome = "fail_clean" ->
              /\ output_file' = output_file
              /\ result' = "none"
              /\ pc' = "aborted"
         [] encode_outcome = "fail_partial" ->
              /\ output_file' = "partial"
              /\ result' = "none"
              /\ pc' = "aborted"
    /\ UNCHANGED <<num_images, audio_ok, audio_duration, timing_present,
                   scene_timing, total_duration, time_den, image_durations,
                   scene_i, current_time, kb_clips, scene_fault>>
    /\ UNCHANGED <<caption_chunks, music_dir, music_duration, music_ok,
                   encode_outcome, background_duration, caption_clips,
                   final_duration, final_audio>>
    /\ UNCHANGED sideVars

OutStart ==
    /\ background_duration = 0
    /\ caption_clips = <<>>
    /\ final_duration = 0
    /\ final_audio = NoAudio
    /\ encode_called = FALSE
    /\ output_file = "absent"

GoodChunk == [text |-> <<"w">>, start |-> 0, end |-> 2, ok |-> TRUE]

BlankChunk == [text |-> <<"_">>, start |-> 0, end |-> 2, ok |-> TRUE]

FailingChunk == [text |-> <<"w">>, start |-> 1, end |-> 3, ok |-> FALSE]

\* one caption, no music directory, a working encoder
OutDefault ==
    /\ caption_chunks = <<GoodChunk>>
    /\ music_dir = "absent"
    /\ music_duration = 1
    /\ music_ok = TRUE
    /\ encode_outcome = "ok"

OutInputs ==
    /\ caption_chunks \in
          UNION {[1..l -> {GoodChunk, BlankChunk, FailingChunk}]
                    : l \in 0..MaxChunks}
    /\ music_dir \in {"absent", "empty", "tracks"}
    /\ music_duration \in 1..MaxMusic
    /\ music_ok \in BOOLEAN
    /\ (music_dir # "tracks" => music_duration = 1 /\ music_ok)
    /\ encode_outcome \in EncodeOutcomes

\* inputs of SpecOut: few images, no scene_timing
SmallScenarioInputs ==
    /\ num_images \in 0..MaxOutImages
    /\ audio_ok \in BOOLEAN
    /\ audio_duration \in {AudioStep, 2 * AudioStep}
    /\ timing_present = FALSE
    /\ scene_timing = <<>>

\* the inputs of the end-to-end timing scenario
FixedScenarioInputs ==
    /\ num_images = 4
    /\ audio_ok = TRUE
    /\ audio_duration = 30
    /\ timing_present = TRUE
    /\ scene_timing = <<3, 7, 8, 10>>

\* inputs of SpecDir: one scene more than there are profiles
ManySceneInputs ==
    /\ num_images = MaxDirection + 1
    /\ audio_ok = TRUE
    /\ audio_duration = AudioStep * MaxAudioSteps
    /\ timing_present = FALSE
    /\ scene_timing = <<>>

\* ------------------------------------------------------------------------
\* _render_caption_frame: word wrap
\* ------------------------------------------------------------------------
\* frame widths: 824 gives max_width 700, 1080 (VIDEO_WIDTH) gives 918
FrameWidths == {824, VIDEO_WIDTH}

\* widths of single words in the font, px
WordWidths == {100, 800}

\* max_width = int(frame_size[0] * 0.85)
MaxLineWidth(frame_w) == Trunc(frame_w * 85, 100)

\* the width draw.textbbox reports for " ".join(line): the words of the
\* line and one space between neighbours
LineWidth(words, line) ==
    SumSeq([j \in 1..Len(line) |-> words[line[j]]])
        + (IF Len(line) > 0 THEN SpaceWidth * (Len(line) - 1) ELSE 0)

\* the loop body that starts the new line empty
WrapStepDropsWord(words, k, current, lines, max_width) ==
    IF LineWidth(words, Append(current, k)) <= max_width
    THEN [current |-> Append(current, k), lines |-> lines]
    ELSE [current |-> <<>>,
          lines |-> IF current # <<>> THEN Append(lines, current) ELSE lines]

\* the body of "for word in words" for the k-th word
WrapStep(words, k, current, lines, max_width) ==
    IF LineWidth(words, Append(current, k)) <= max_width
    THEN [current |-> Append(current, k), lines |-> lines]
    ELSE [current |-> <<k>>,
          lines |-> IF current # <<>> THEN Append(lines, current) ELSE lines]

WrInit ==
    /\ wr_frame_w \in FrameWidths
    /\ wr_words \in UNION {[1..l -> WordWidths] : l \in 0..MaxWords}
    /\ wr_i = 0
    /\ wr_current = <<>>
    /\ wr_lines = <<>>
    /\ wr_state = "loop"

\* the wrap machine at rest
WrIdle ==
    /\ wr_frame_w = VIDEO_WIDTH
    /\ wr_words = <<>>
    /\ wr_i = 0
    /\ wr_current = <<>>
    /\ wr_lines = <<>>
    /\ wr_state = "loop"

\* one iteration of "for word in words"
WrapWord ==
    /\ wr_state = "loop"
    /\ wr_i < Len(wr_words)
    /\ LET r == WrapStep(wr_words, wr_i + 1, wr_current, wr_lines,
                         MaxLineWidth(wr_frame_w))
       IN  /\ wr_current' = r.current
           /\ wr_lines' = r.lines
    /\ wr_i' = wr_i + 1
    /\ UNCHANGED <<wr_frame_w, wr_words, wr_state>>
    /\ UNCHANGED <<asmVars, outVars, kbVars, capVars, restVars>>

\* after the loop: if current_line: lines.append(" ".join(current_line))
WrapFlush ==
    /\ wr_state = "loop"
    /\ wr_i = Len(wr_words)
    /\ wr_lines' = IF wr_current # <<>> THEN Append(wr_lines, wr_current)
                                        ELSE wr_lines
    /\ wr_state' = "wrapped"
    /\ UNCHANGED <<wr_frame_w, wr_words, wr_i, wr_current>>
    /\ UNCHANGED <<asmVars, outVars, kbVars, capVars, restVars>>

\* ------------------------------------------------------------------------
\* brain.py: enrich_image_prompts
\* ------------------------------------------------------------------------
\* A prompt is [str, toks]: str says the JSON value is a string, toks is its
\* text as tokens: "x" ordinary words, "K" a style keyword (in any case),
\* "S" the whole ART_STYLE_SUFFIX, "." trailing dots and blanks, "," the
\* ", " joiner.
PromptTokens == {"x", "K", "S", "."}

\* str.lower() of a token
Lower(tok) ==
    CASE tok = "K" -> "k"
      [] tok = "S" -> "s"
      [] OTHER -> tok

\* lower-case tokens in which a STYLE_DETECTION_KEYWORDS entry occurs: a
\* keyword itself, and the suffix ("amar chitra", "comic book", ...)
StyleKeywordTokens == {"k", "s"}

\* any(keyword in prompt.lower() for keyword in STYLE_DETECTION_KEYWORDS)
PromptAlreadyStyled(p) ==
    \E j \in 1..Len(p.toks) : Lower(p.toks[j]) \in StyleKeywordTokens

RECURSIVE RStripDots(_)
\* prompt.rstrip('. ')
RStripDots(toks) ==
    IF toks # <<>> /\ toks[Len(toks)] = "."
    THEN RStripDots(SubSeq(toks, 1, Len(toks) - 1))
    ELSE toks

\* the suffix appended whether or not the prompt is styled
EnrichPromptAlways(p) ==
    [str |-> TRUE, toks |-> RStripDots(p.toks) \o <<",", "S">>]

\* the loop body of enrich_image_prompts
EnrichPrompt(p) ==
    IF PromptAlreadyStyled(p)
    THEN p
    ELSE [str |-> TRUE, toks |-> RStripDots(p.toks) \o <<",", "S">>]

\* enrich_image_prompts(prompts); prompt.lower() raises on a non-string
EnrichImagePrompts(prompts) ==
    IF \E k \in 1..Len(prompts) : ~prompts[k].str
    THEN [raised |-> TRUE, prompts |-> <<>>]
    ELSE [raised |-> FALSE,
          prompts |-> [k \in 1..Len(prompts) |-> EnrichPrompt(prompts[k])]]

\* a JSON value that is not a string
NonString == [str |-> FALSE, toks |-> <<>>]

PromptValues ==
    {NonString} \cup
    {[str |-> TRUE, toks |-> t] :
        t \in UNION {[1..l -> PromptTokens] : l \in 0..MaxPromptLen}}

NoEnriched == [raised |-> FALSE, prompts |-> <<>>]

EnInit ==
    /\ en_input \in UNION {[1..l -> PromptValues] : l \in 0..MaxPromptList}
    /\ en_once = NoEnriched
    /\ en_twice = NoEnriched
    /\ en_state = "input"

\* the enrich machine at rest
EnIdle ==
    /\ en_input = <<>>
    /\ en_once = NoEnriched
    /\ en_twice = NoEnriched
    /\ en_state = "input"

\* enriched = enrich_image_prompts(prompts)
EnrichOnce ==
    /\ en_state = "input"
    /\ en_once' = EnrichImagePrompts(en_input)
    /\ en_state' = "once"
    /\ UNCHANGED <<en_input, en_twice>>
    /\ UNCHANGED <<asmVars, outVars, kbVars, capVars, wrapVars, brainVars,
                   voiceVars, pipeVars>>

\* enrich_image_prompts(enriched), when the first call returned
EnrichTwice ==
    /\ en_state = "once"
    /\ ~en_once.raised
    /\ en_twice' = EnrichImagePrompts(en_once.prompts)
    /\ en_state' = "twice"
    /\ UNCHANGED <<en_input, en_once>>
    /\ UNCHANGED <<asmVars, outVars, kbVars, capVars, wrapVars, brainVars,
                   voiceVars, pipeVars>>

\* ------------------------------------------------------------------------
\* brain.py: _validate_script, generate_script
\* ------------------------------------------------------------------------
MAX_RETRIES == 3

\* len(data["image_prompts"]) < 3 is rejected
MinPrompts == 3

\* "exactly 8 prompts (pad or trim)"
NumPrompts == 8

\* the weight scene_timing is padded with
PadWeight == 5

PlainPrompt == [str |-> TRUE, toks |-> <<"x", ".">>]

StyledPrompt == [str |-> TRUE, toks |-> <<"x", "K">>]

\* "Ancient Indian temple, comic book style, vibrant colors, bold lines,
\* {ART_STYLE_SUFFIX}"
PadPrompt == [str |-> TRUE, toks |-> <<"x", "K", "x", "S">>]

\* image_prompts lists of LLM responses: all plain, all styled, or plain
\* with a non-string as last item
PromptLists ==
    {[k \in 1..l |-> PlainPrompt] : l \in 0..MaxPrompts}
    \cup {[k \in 1..l |-> StyledPrompt] : l \in 1..MaxPrompts}
    \cup {[k \in 1..l |-> IF k = l THEN NonString ELSE PlainPrompt]
             : l \in 1..MaxPrompts}

TimingLists == {[k \in 1..l |-> 3] : l \in 0..MaxPrompts}

\* what one ollama.chat call gives: an exception, text that is not JSON, or
\* JSON data.  head_ok: title, narration and image_prompts are present and
\* of the right type and size; timing_ok: scene_timing is a list of numbers
NoData == [head_ok |-> FALSE, prompts |-> <<>>, timing_present |-> FALSE,
           timing_ok |-> FALSE, timing |-> <<>>]

Responses ==
    {[kind |-> k, data |-> NoData] :
        k \in {"json_error", "model_not_found", "response_error",
               "other_error"}}
    \cup
    {[kind |-> "data",
      data |-> [head_ok |-> h, prompts |-> ps, timing_present |-> tp,
                timing_ok |-> tk, timing |-> tl]] :
        h \in BOOLEAN, ps \in PromptLists, tp \in BOOLEAN, tk \in BOOLEAN,
        tl \in TimingLists}

\* _validate_script(data)[0]
ValidateScript(d) ==
    /\ d.head_ok
    /\ Len(d.prompts) >= MinPrompts
    /\ (d.timing_present => d.timing_ok)

\* the first n items of s
Take(s, n) == SubSeq(s, 1, Min(Len(s), n))

\* while len(s) < n: s.append(x)
Pad(s, n, x) == [k \in 1..Max(Len(s), n) |-> IF k <= Len(s) THEN s[k] ELSE x]

\* pad without the trim
PadOnly(s, n, x) == Pad(s, n, x)

\* pad, then s[:n]
PadTrim(s, n, x) == Take(Pad(s, n, x), n)

NoScript == [none |-> TRUE, prompts |-> <<>>, timing_present |-> FALSE,
             timing |-> <<>>]

\* the part of the try block after validation: enrich, pad/trim the
\* prompts, sync scene_timing
PostProcess(d) ==
    LET e == EnrichImagePrompts(d.prompts)
    IN  IF e.raised
        THEN [raised |-> TRUE, script |-> NoScript]
        ELSE [raised |-> FALSE,
              script |->
                [none |-> FALSE,
                 prompts |-> PadTrim(e.prompts, NumPrompts, PadPrompt),
                 timing_present |-> d.timing_present,
                 timing |-> IF d.timing_present
                            THEN PadTrim(d.timing, NumPrompts, PadWeight)
                            ELSE <<>>]]

\* one pass of the retry loop body: what happened, whether the response
\* parsed and validated, and the script when the pass returns one
AttemptOutcome(resp) ==
    IF resp.kind # "data"
    THEN [kind |-> resp.kind, validated |-> FALSE, script |-> NoScript]
    ELSE IF ~ValidateScript(resp.data)
    THEN [kind |-> "invalid", validated |-> FALSE, script |-> NoScript]
    ELSE LET r == PostProcess(resp.data)
         IN  IF r.raised
             THEN [kind |-> "other_error", validated |-> TRUE,
                   script |-> NoScript]
             ELSE [kind |-> "ok", validated |-> TRUE, script |-> r.script]

BrInit ==
    /\ br_ollama \in BOOLEAN
    /\ br_pc = "start"
    /\ br_log = <<>>
    /\ br_sizes = [n_prompts |-> 0, n_timing |-> 0]
    /\ br_result = NoScript

\* the script generator at rest
BrIdle ==
    /\ br_ollama = FALSE
    /\ br_pc = "start"
    /\ br_log = <<>>
    /\ br_sizes = [n_prompts |-> 0, n_timing |-> 0]
    /\ br_result = NoScript

\* if not _ensure_ollama_running(): return None
EnsureOllama ==
    /\ br_pc = "start"
    /\ br_pc' = IF br_ollama THEN "attempt" ELSE "returned"
    /\ UNCHANGED <<br_ollama, br_log, br_sizes, br_result>>
    /\ UNCHANGED <<asmVars, outVars, kbVars, capVars, wrapVars, enVars,
                   voiceVars, pipeVars>>

\* one iteration of "for attempt in range(1, MAX_RETRIES + 1)"
Attempt ==
    /\ br_pc = "attempt"
    /\ Len(br_log) < MAX_RETRIES
    /\ \E resp \in Responses :
         LET o == AttemptOutcome(resp)
         IN  /\ br_log' = Append(br_log,
                              [kind |-> o.kind, validated |-> o.validated])
             /\ br_sizes' = IF o.kind = "ok"
                            THEN [n_prompts |-> Len(resp.data.prompts),
                                  n_timing |-> Len(resp.data.timing)]
                            ELSE br_sizes
             /\ br_result' = o.script
             /\ br_pc' = IF o.kind \in {"ok", "model_not_found"}
                         THEN "returned"
                         ELSE "attempt"
    /\ UNCHANGED br_ollama
    /\ UNCHANGED <<asmVars, outVars, kbVars, capVars, wrapVars, enVars,
                   voiceVars, pipeVars>>

\* the loop is exhausted: return None
GiveUp ==
    /\ br_pc = "attempt"
    /\ Len(br_log) >= MAX_RETRIES
    /\ br_pc' = "returned"
    /\ br_result' = NoScript
    /\ UNCHANGED <<br_ollama, br_log, br_sizes>>
    /\ UNCHANGED <<asmVars, outVars, kbVars, capVars, wrapVars, enVars,
                   voiceVars, pipeVars>>

\* ------------------------------------------------------------------------
\* voice.py: _align_text_to_duration, generate_timestamps, process_voice
\* ------------------------------------------------------------------------
WORDS_PER_CHUNK == 4

\* LEADING_SILENCE and TRAILING_SILENCE, ms
LeadingSilence == 300

TrailingSilence == 500

\* round(x, 3) of num/den ms taken to the nearest ms
RoundMs(num, den) == (2 * num + den) \div (2 * den)

\* words = [w for w in raw_words if _clean_word(w)]: the positions of the
\* tokens that keep a character
SpeakableWords(narration) ==
    SelectSeq([k \in 1..Len(narration) |-> k],
              LAMBDA k : narration[k] = "w")

\* speakable_duration: the silences are taken off unless nothing is left
SpeakableDuration(duration) ==
    IF duration - LeadingSilence - TrailingSilence <= 0
    THEN duration
    ELSE duration - LeadingSilence - TrailingSilence

\* start and end of word i (from 0) of n, ms
WordStart(i, n, duration) ==
    RoundMs(LeadingSilence * n + i * SpeakableDuration(duration), n)

WordEnd(i, n, duration) ==
    RoundMs(LeadingSilence * n + (i + 1) * SpeakableDuration(duration), n)

\* _align_text_to_duration: [] without words, else one chunk per group of
\* chunk_size words, from the start of its first word to the end of its
\* last
AlignTextToDuration(narration, duration, chunk_size) ==
    LET words == SpeakableWords(narration)
        n == Len(words)
        groups == (n + chunk_size - 1) \div chunk_size
    IN  [g \in 1..groups |->
            LET first == (g - 1) * chunk_size
                last == Min(g * chunk_size, n) - 1
            IN  [text |-> SubSeq(words, first + 1, last + 1),
                 start |-> WordStart(first, n, duration),
                 end |-> WordEnd(last, n, duration)]]

NoChunks == [none |-> TRUE, list |-> <<>>]

\* generate_timestamps: None when the alignment is empty
GenerateTimestampsResult(narration, duration) ==
    LET chunks == AlignTextToDuration(narration, duration, WORDS_PER_CHUNK)
    IN  IF chunks = <<>>
        THEN NoChunks
        ELSE [none |-> FALSE, list |-> chunks]

AudioDurations == {500, 2000, 4100}

VoInit ==
    /\ vo_narration \in UNION {[1..l -> {"w", "p"}] : l \in 0..MaxNarration}
    /\ vo_edge_ok \in BOOLEAN
    /\ vo_macos_ok \in BOOLEAN
    /\ vo_duration \in AudioDurations
    /\ vo_pc = "audio"
    /\ vo_audio = "unset"
    /\ vo_chunks = NoChunks

\* process_voice at rest
VoIdle ==
    /\ vo_narration = <<>>
    /\ vo_edge_ok = FALSE
    /\ vo_macos_ok = FALSE
    /\ vo_duration = 500
    /\ vo_pc = "audio"
    /\ vo_audio = "unset"
    /\ vo_chunks = NoChunks

\* audio_path = generate_audio(...): Edge TTS, else the macOS fallback,
\* else None; if audio_path is None: return None, None
GenerateAudio ==
    /\ vo_pc = "audio"
    /\ IF vo_edge_ok \/ vo_macos_ok
       THEN vo_audio' = "path" /\ vo_pc' = "timestamps"
       ELSE vo_audio' = "none" /\ vo_pc' = "returned"
    /\ UNCHANGED <<vo_narration, vo_edge_ok, vo_macos_ok, vo_duration,
                   vo_chunks>>
    /\ UNCHANGED <<asmVars, outVars, kbVars, capVars, wrapVars, brainVars,
                   enVars, pipeVars>>

\* chunks = generate_timestamps(...); return audio_path, chunks
GenerateTimestamps ==
    /\ vo_pc = "timestamps"
    /\ vo_chunks' = GenerateTimestampsResult(vo_narration, vo_duration)
    /\ vo_pc' = "returned"
    /\ UNCHANGED <<vo_narration, vo_edge_ok, vo_macos_ok, vo_duration,
                   vo_audio>>
    /\ UNCHANGED <<asmVars, outVars, kbVars, capVars, wrapVars, brainVars,
                   enVars, pipeVars>>

\* ------------------------------------------------------------------------
\* main.py: run_pipeline
\* ------------------------------------------------------------------------
\* what loading a script file can give: a script with narration and
\* image_prompts, a JSON object without them, or an error
LoadOutcomes == {"complete", "incomplete", "error"}

\* what voice.process_voice can return: (audio_path, chunks)
VoiceReturns ==
    {[audio |-> "path", chunks_none |-> FALSE],
     [audio |-> "none", chunks_none |-> TRUE],
     [audio |-> "path", chunks_none |-> TRUE]}

\* how assembly.assemble_video can end: a path, None, or an exception
AssembleOutcomes == {"output", "none", "crashed"}

\* assembly rendered whatever skip_video says
RunsAssemblyAlways(skip_video) == TRUE

\* "if skip_video: ... return True" before stage 4
RunsAssembly(skip_video) == ~skip_video

PlInit ==
    /\ pl_script_file \in BOOLEAN
    /\ pl_review \in BOOLEAN
    /\ pl_placeholders \in BOOLEAN
    /\ pl_skip_video \in BOOLEAN
    /\ pl_pc = "stage1"
    /\ pl_script = "unset"
    /\ pl_invoked = <<>>
    /\ pl_failed = <<>>
    /\ pl_result = "running"

\* run_pipeline at rest
PlIdle ==
    /\ pl_script_file = FALSE
    /\ pl_review = FALSE
    /\ pl_placeholders = FALSE
    /\ pl_skip_video = FALSE
    /\ pl_pc = "stage1"
    /\ pl_script = "unset"
    /\ pl_invoked = <<>>
    /\ pl_failed = <<>>
    /\ pl_result = "running"

\* Stage 1: the script file is loaded, or brain.generate_script is called
\* (which validates the script it returns); if script is None: return False
StageScript ==
    /\ pl_pc = "stage1"
    /\ pl_invoked' = Append(pl_invoked, "script")
    /\ \E o \in LoadOutcomes :
         /\ (~pl_script_file => o # "incomplete")
         /\ pl_failed' = Append(pl_failed, o = "error")
         /\ IF o = "error"
            THEN /\ pl_pc' = "returned"
                 /\ pl_result' = "false"
                 /\ pl_script' = pl_script
            ELSE /\ pl_pc' = IF pl_review THEN "review" ELSE "stage2"
                 /\ pl_result' = pl_result
                 /\ pl_script' = o
    /\ UNCHANGED <<pl_script_file, pl_review, pl_placeholders, pl_skip_video>>
    /\ UNCHANGED <<asmVars, outVars, kbVars, capVars, wrapVars, brainVars,
                   enVars, voiceVars>>

\* review mode: script.json is read again after the pause
ReviewReload ==
    /\ pl_pc = "review"
    /\ \E o \in LoadOutcomes :
         IF o = "error"
         THEN /\ pl_pc' = "returned"
              /\ pl_result' = "false"
              /\ pl_script' = pl_script
         ELSE /\ pl_pc' = "stage2"
              /\ pl_result' = pl_result
              /\ pl_script' = o
    /\ UNCHANGED <<pl_script_file, pl_review, pl_placeholders, pl_skip_video,
                   pl_invoked, pl_failed>>
    /\ UNCHANGED <<asmVars, outVars, kbVars, capVars, wrapVars, brainVars,
                   enVars, voiceVars>>

\* narration = script["narration"] ... (KeyError on an incomplete script);
\* Stage 2: stage_2_generate_voice;
\* if audio_path is None or caption_chunks is None: return False
StageVoice ==
    /\ pl_pc = "stage2"
    /\ IF pl_script = "incomplete"
       THEN /\ pl_pc' = "returned"
            /\ pl_result' = "raised"
            /\ UNCHANGED <<pl_invoked, pl_failed>>
       ELSE /\ pl_invoked' = Append(pl_invoked, "voice")
            /\ \E ret \in VoiceReturns :
                 LET failed == ret.audio = "none" \/ ret.chunks_none
                 IN  /\ pl_failed' = Append(pl_failed, failed)
                     /\ pl_pc' = IF failed THEN "returned" ELSE "stage3"
                     /\ pl_result' = IF failed THEN "false" ELSE pl_result
    /\ UNCHANGED <<pl_script_file, pl_review, pl_placeholders, pl_skip_video,
                   pl_script>>
    /\ UNCHANGED <<asmVars, outVars, kbVars, capVars, wrapVars, brainVars,
                   enVars, voiceVars>>

\* Stage 3: stage_3_generate_images; if not image_paths: return False.
\* One placeholder is written per prompt (none for a hand-written script
\* without prompts); generated images may all fail
StageImages ==
    /\ pl_pc = "stage3"
    /\ pl_invoked' = Append(pl_invoked, "images")
    /\ \E empty \in BOOLEAN :
         /\ ((pl_placeholders /\ ~pl_script_file /\ ~pl_review) => ~empty)
         /\ pl_failed' = Append(pl_failed, empty)
         /\ pl_pc' = IF empty THEN "returned" ELSE "stage4"
         /\ pl_result' = IF empty THEN "false" ELSE pl_result
    /\ UNCHANGED <<pl_script_file, pl_review, pl_placeholders, pl_skip_video,
                   pl_script>>
    /\ UNCHANGED <<asmVars, outVars, kbVars, capVars, wrapVars, brainVars,
                   enVars, voiceVars>>

\* Stage 4: if skip_video: return True; else stage_4_assemble_video;
\* if final_video is None: return False; return True
StageVideo ==
    /\ pl_pc = "stage4"
    /\ pl_pc' = "returned"
    /\ IF ~RunsAssembly(pl_skip_video)
       THEN /\ pl_result' = "true"
            /\ UNCHANGED <<pl_invoked, pl_failed>>
       ELSE /\ pl_invoked' = Append(pl_invoked, "assembly")
            /\ \E o \in AssembleOutcomes :
                 /\ pl_failed' = Append(pl_failed, o # "output")
                 /\ pl_result' = CASE o = "output" -> "true"
                                   [] o = "none" -> "false"
                                   [] o = "crashed" -> "raised"
    /\ UNCHANGED <<pl_script_file, pl_review, pl_placeholders, pl_skip_video,
                   pl_script>>
    /\ UNCHANGED <<asmVars, outVars, kbVars, capVars, wrapVars, brainVars,
                   enVars, voiceVars>>

\* the modules around assembly.py at rest
RestIdle == BrIdle /\ EnIdle /\ VoIdle /\ PlIdle

\* ------------------------------------------------------------------------
\* Specifications
\* ------------------------------------------------------------------------
Init ==
    /\ ScenarioInputs /\ AsmStart
    /\ OutDefault /\ OutStart
    /\ KBIdle /\ CCIdle /\ WrIdle /\ RestIdle

Next ==
    \/ LoadAudio
    \/ CheckImages
    \/ Resolve
    \/ BuildScene
    \/ Composite
    \/ BuildCaptions
    \/ MixMusic
    \/ Render

Spec == Init /\ [][Next]_vars

InitOut ==
    /\ SmallScenarioInputs /\ AsmStart
    /\ OutInputs /\ OutStart
    /\ KBIdle /\ CCIdle /\ WrIdle /\ RestIdle

SpecOut == InitOut /\ [][Next]_vars

InitScenario ==
    /\ FixedScenarioInputs /\ AsmStart
    /\ OutDefault /\ OutStart
    /\ KBIdle /\ CCIdle /\ WrIdle /\ RestIdle

SpecScenario == InitScenario /\ [][Next]_vars

InitDir ==
    /\ ManySceneInputs /\ AsmStart
    /\ OutDefault /\ OutStart
    /\ KBIdle /\ CCIdle /\ WrIdle /\ RestIdle

SpecDir == InitDir /\ [][Next]_vars

\* the assemble_video machine at rest
AsmRest == AsmIdle /\ OutDefault /\ OutStart

InitKB == AsmRest /\ KBInit /\ CCIdle /\ WrIdle /\ RestIdle

NextKB == MakeFrame

SpecKB == InitKB /\ [][NextKB]_vars

InitCap == AsmRest /\ KBIdle /\ CCInit /\ WrIdle /\ RestIdle

NextCap == CaptionChunk \/ CaptionReturn

SpecCap == InitCap /\ [][NextCap]_vars

InitWrap == AsmRest /\ KBIdle /\ CCIdle /\ WrInit /\ RestIdle

NextWrap == WrapWord \/ WrapFlush

SpecWrap == InitWrap /\ [][NextWrap]_vars

InitBrain ==
    /\ AsmRest /\ KBIdle /\ CCIdle /\ WrIdle
    /\ BrInit /\ EnIdle /\ VoIdle /\ PlIdle

NextBrain == EnsureOllama \/ Attempt \/ GiveUp

SpecBrain == InitBrain /\ [][NextBrain]_vars

InitEnrich ==
    /\ AsmRest /\ KBIdle /\ CCIdle /\ WrIdle
    /\ BrIdle /\ EnInit /\ VoIdle /\ PlIdle

NextEnrich == EnrichOnce \/ EnrichTwice

SpecEnrich == InitEnrich /\ [][NextEnrich]_vars

InitVoice ==
    /\ AsmRest /\ KBIdle /\ CCIdle /\ WrIdle
    /\ BrIdle /\ EnIdle /\ VoInit /\ PlIdle

NextVoice == GenerateAudio \/ GenerateTimestamps

SpecVoice == InitVoice /\ [][NextVoice]_vars

InitPipeline ==
    /\ AsmRest /\ KBIdle /\ CCIdle /\ WrIdle
    /\ BrIdle /\ EnIdle /\ VoIdle /\ PlInit

NextPipeline ==
    \/ StageScript
    \/ ReviewReload
    \/ StageVoice
    \/ StageImages
    \/ StageVideo

SpecPipeline == InitPipeline /\ [][NextPipeline]_vars

\* ------------------------------------------------------------------------
\* Properties of _resolve_image_durations and the scene timeline (Spec)
\* ------------------------------------------------------------------------
Abs(x) == IF x >= 0 THEN x ELSE -x

\* _resolve_image_durations has been called in this run
ResolveCalled ==
    \/ pc \in {"build", "composited", "captioned", "mixed", "done"}
    \/ pc = "aborted" /\ (result = "crashed" \/ image_durations # <<>>)

\* the call took the weighted path
WeightedPath == WeightsUsable(num_images, timing_present, scene_timing)

\* the MIN_IMAGE_DURATION floor raised the share of scene k
FloorTriggered(k) ==
    scene_timing[k] * total_duration < MIN_IMAGE_DURATION * SumSeq(scene_timing)

\* C1: on the weighted path (scene_timing of length num_images, all entries
\* strictly positive) the returned display durations sum to audio_duration
\* within 1e-3 s.
C1_WeightedSumIsAudio ==
    (ResolveCalled /\ WeightedPath) =>
        /\ result # "crashed"
        /\ Len(image_durations) = num_images
        /\ Abs(SumSeq(image_durations) - total_duration * time_den) * 1000
              <= time_den

C1_Witness ==
    /\ pc = "build"
    /\ WeightedPath
    /\ num_images >= 2
    /\ \E k \in 1..num_images : FloorTriggered(k)
    /\ \E k \in 1..num_images : ~FloorTriggered(k)
    /\ SumSeq(image_durations) = total_duration * time_den

\* C2: on both paths of _resolve_image_durations the display durations sum
\* to total_duration (the audio duration).
C2_SumIsTotalOnBothPaths ==
    (ResolveCalled /\ result # "crashed") =>
        SumSeq(image_durations) = total_duration * time_den

ClipsOfScene(i) == {j \in 1..Len(kb_clips) : kb_clips[j].scene = i}

\* start_offset of scene i: the display durations of the scenes before it
StartOffset(i) == SumPrefix(image_durations, i)

\* C8: scene 0 has no fade-in, the final scene has no fade-out, and every
\* interior scene present in the composition has a fade-in and a fade-out
\* of CROSSFADE_DURATION.
C8_CrossfadePlacement ==
    \A j \in 1..Len(kb_clips) :
        LET c == kb_clips[j]
        IN  /\ (c.scene = 0 => c.fadein = 0)
            /\ (c.scene = num_images - 1 => c.fadeout = 0)
            /\ (c.scene > 0 /\ c.scene < num_images - 1
                   => /\ c.fadein = Crossfade(time_den)
                      /\ c.fadeout = Crossfade(time_den))

\* C9: every clip placed in the composition, animated or static, starts at
\* the sum of the display durations of the scenes before it, whether or not
\* earlier scenes failed to render.
C9_StartIsSumOfDisplayDurations ==
    \A j \in 1..Len(kb_clips) :
        kb_clips[j].start = StartOffset(kb_clips[j].scene)

C9_Witness ==
    /\ pc = "composited"
    /\ \E j \in 1..Len(kb_clips) :
         /\ kb_clips[j].scene = 2
         /\ kb_clips[j].kind = "static"
         /\ scene_fault[1] = "none"
         /\ scene_fault[2] = "image"
         /\ kb_clips[j].start = image_durations[1] + image_durations[2]
         /\ kb_clips[j].start > 0

\* C10: a scene whose image preparation or Ken Burns clip failed is still
\* in the composition, as a static clip that starts at its start offset
\* and lasts its full clip duration.
C10_FailedSceneIsStatic ==
    \A i \in 0..(Len(scene_fault) - 1) :
        scene_fault[i + 1] # "none" =>
            \E j \in ClipsOfScene(i) :
                /\ kb_clips[j].kind = "static"
                /\ kb_clips[j].start = StartOffset(i)
                /\ kb_clips[j].duration =
                       image_durations[i + 1] + Crossfade(time_den)

\* ------------------------------------------------------------------------
\* Properties of KenBurnsClip.make_frame (SpecKB)
\* ------------------------------------------------------------------------
\* C4: on the prepared canvas, for each profile and every t in
\* [0, duration], 0 <= x1 < x2 <= canvas_w and 0 <= y1 < y2 <= canvas_h.
C4_CropWindowInsideCanvas ==
    (/\ kb_frame.ok
     /\ kb_prepared
     /\ kb_frame.t >= 0
     /\ kb_frame.t <= kb_duration) =>
        /\ 0 <= kb_frame.x1
        /\ kb_frame.x1 < kb_frame.x2
        /\ kb_frame.x2 <= kb_img.w
        /\ 0 <= kb_frame.y1
        /\ kb_frame.y1 < kb_frame.y2
        /\ kb_frame.y2 <= kb_img.h

C4_Witness ==
    /\ kb_frame.ok
    /\ kb_prepared
    /\ kb_frame.t > 0
    /\ kb_frame.t < kb_duration
    /\ kb_frame.pan_x > 0
    /\ kb_frame.pan_y > 0
    /\ kb_frame.x2 - kb_frame.x1 < VIDEO_WIDTH
    /\ kb_frame.x2 <= kb_img.w

\* the window centred on the crop centre would pass the right or bottom
\* edge of the canvas
OverrunsHigh(src_len, pan, crop) ==
    Max(0, src_len \div 2 + pan - crop \div 2) + crop > src_len

\* the window centred on the crop centre would pass the left or top edge
OverrunsLow(src_len, pan, crop) ==
    src_len \div 2 + pan - crop \div 2 < 0

\* C5: whenever the canvas is at least crop_w x crop_h the window has
\* exactly the requested size, for every crop centre; a window that overruns
\* an edge is moved back inside, not reduced.
C5_ShiftNotShrink ==
    (/\ kb_frame.ok
     /\ kb_src.w >= kb_frame.crop_w
     /\ kb_src.h >= kb_frame.crop_h) =>
        /\ kb_frame.x2 - kb_frame.x1 = kb_frame.crop_w
        /\ kb_frame.y2 - kb_frame.y1 = kb_frame.crop_h

C5_Witness ==
    /\ kb_frame.ok
    /\ kb_src.w >= kb_frame.crop_w
    /\ kb_src.h >= kb_frame.crop_h
    /\ OverrunsHigh(kb_src.w, kb_frame.pan_x, kb_frame.crop_w)
    /\ kb_frame.x2 = kb_src.w
    /\ kb_frame.x2 - kb_frame.x1 = kb_frame.crop_w

\* C6: for every t, also t < 0 or t > duration, the progress the animation
\* is evaluated at lies in [0, 1], so zoom lies between start_zoom and
\* end_zoom.
C6_ProgressIsClamped ==
    kb_frame.ok =>
        LET p == Profile(kb_direction)
        IN  /\ 0 <= kb_frame.progress
            /\ kb_frame.progress <= kb_duration
            /\ Min(p.sz, p.ez) * kb_duration <= kb_frame.zoom
            /\ kb_frame.zoom <= Max(p.sz, p.ez) * kb_duration

\* C7: for every profile the crop width is exactly VIDEO_W / start_zoom at
\* t = 0 and VIDEO_W / end_zoom at t = duration, and the crop height
\* VIDEO_H / start_zoom and VIDEO_H / end_zoom.
C7_ZoomEndpoints ==
    kb_frame.ok =>
        LET p == Profile(kb_direction)
        IN  /\ (kb_frame.t = 0 =>
                  /\ kb_frame.crop_w * p.sz = VIDEO_WIDTH * ZoomDen
                  /\ kb_frame.crop_h * p.sz = VIDEO_HEIGHT * ZoomDen)
            /\ (kb_frame.t = kb_duration =>
                  /\ kb_frame.crop_w * p.ez = VIDEO_WIDTH * ZoomDen
                  /\ kb_frame.crop_h * p.ez = VIDEO_HEIGHT * ZoomDen)

C7_Witness ==
    /\ kb_frame.ok
    /\ kb_frame.t = kb_duration
    /\ kb_duration > 1
    /\ Profile(kb_direction).ez = ZoomNum
    /\ kb_frame.crop_w = 900
    /\ kb_frame.crop_h = 1600

\* ------------------------------------------------------------------------
\* Properties of the caption, music and render steps (SpecOut)
\* ------------------------------------------------------------------------
\* the chunk passes the duration/text filter against total duration T
Survives(chunk, T) ==
    /\ Min(chunk.end, T) - chunk.start > 0
    /\ \E j \in 1..Len(chunk.text) : chunk.text[j] = "w"

\* the encoder was invoked and did not deliver
EncodeFailed == encode_called /\ encode_outcome # "ok"

\* C11: assemble_video aborts only if audio loading fails, no scene at all
\* could be rendered, or final encoding fails; a failing caption chunk, a
\* failing scene among others or failing music never aborts it.
C11_AbortsOnlyOnFatalErrors ==
    pc = "aborted" =>
        \/ ~audio_ok
        \/ kb_clips = <<>>
        \/ EncodeFailed

\* C12: if the audio is unreadable, the image list is empty or no caption
\* chunk survives the filter, assemble_video aborts without building any
\* scene clip and without invoking the encoder.
C12_InputErrorAbortsBeforeRendering ==
    (\/ ~audio_ok
     \/ num_images = 0
     \/ \A k \in 1..Len(caption_chunks) :
            ~Survives(caption_chunks[k], audio_duration)) =>
        /\ kb_clips = <<>>
        /\ scene_fault = <<>>
        /\ ~encode_called
        /\ pc # "done"

\* C13: if the final video writer fails, assemble_video reports failure and
\* no partial output file remains at output_path.
C13_NoPartialOutputAfterEncodeError ==
    (encode_called /\ encode_outcome \in {"fail_clean", "fail_partial"}) =>
        /\ result = "none"
        /\ pc = "aborted"
        /\ output_file = "absent"

\* final_audio has been decided in this run
AudioDecided == pc \in {"mixed", "done"} \/ encode_called

\* C18: for a track of duration m > 0 and any total_duration T the music
\* clip that is mixed has duration exactly T: looped up to T when m < T,
\* truncated to [0, T) when m >= T.
C18_MusicLengthIsTotal ==
    (AudioDecided /\ final_audio.music) =>
        /\ final_audio.music_len = total_duration
        /\ (final_audio.looped <=> music_duration < total_duration)

C18_Witness ==
    /\ pc = "done"
    /\ final_audio.music
    /\ final_audio.looped
    /\ music_duration < total_duration
    /\ total_duration % music_duration # 0
    /\ final_audio.music_len = total_duration

\* C19: the narration is in the final audio of every assembled video; music
\* is mixed under it only when the music directory exists, holds a track
\* and the track loads and processes; otherwise the final audio is the
\* narration alone and the assembly goes on to the encoder.
C19_NarrationAlwaysPresent ==
    AudioDecided =>
        /\ final_audio.narration
        /\ (final_audio.music <=> (music_dir = "tracks" /\ music_ok))
        /\ result # "crashed"
        /\ (pc = "aborted" => encode_called)

C19_Witness ==
    /\ pc = "done"
    /\ result = "output"
    /\ music_dir = "tracks"
    /\ ~music_ok
    /\ final_audio.narration
    /\ ~final_audio.music

\* the end of the last clip placed in the background
LastClipEnd == MaxOf({kb_clips[j].start + kb_clips[j].duration
                         : j \in 1..Len(kb_clips)})

\* C20: for every successful run the duration of the composed video equals
\* the narration audio duration, whatever the scene display durations, the
\* caption intervals and the music track length are.
C20_OutputDurationIsAudioDuration ==
    (pc \in {"mixed", "done"} \/ result = "output") =>
        final_duration = audio_duration * time_den

C20_Witness ==
    /\ result = "output"
    /\ SumSeq(image_durations) # audio_duration * time_den
    /\ LastClipEnd # audio_duration * time_den
    /\ Len(caption_clips) >= 1
    /\ final_audio.music
    /\ music_duration # audio_duration
    /\ final_duration = audio_duration * time_den

\* ------------------------------------------------------------------------
\* Properties of _build_caption_clips (SpecCap)
\* ------------------------------------------------------------------------
\* the clips scheduled for chunk k
ClipsOfChunk(k) == {j \in 1..Len(cc_clips) : cc_clips[j].chunk = k}

C15_ClipEndsAtClampedEnd ==
    \A j \in 1..Len(cc_clips) :
        LET c == cc_clips[j]
        IN  /\ c.duration > 0
            /\ c.start + c.duration = Min(cc_chunks[c.chunk].end, cc_total)
            /\ c.start + c.duration <= cc_total

C15_Witness ==
    /\ cc_state = "returned"
    /\ \E j \in 1..Len(cc_clips) :
         /\ cc_chunks[cc_clips[j].chunk].end > cc_total
         /\ cc_clips[j].start > 0
         /\ cc_clips[j].start + cc_clips[j].duration = cc_total

\* ------------------------------------------------------------------------
\* Properties of the word wrap (SpecWrap)
\* ------------------------------------------------------------------------
\* 8 words of 100 px wrapped against max_width = 700 px
EightWordsWrapped ==
    /\ wr_state = "wrapped"
    /\ MaxLineWidth(wr_frame_w) = 700
    /\ wr_words = [k \in 1..8 |-> 100]

\* C16 as stated: with max_width = 700 px, words of 100 px and spaces of
\* 10 px, 8 words wrap into exactly 2 lines of 4 words each.
C16_TwoLinesOfFour ==
    EightWordsWrapped =>
        /\ Len(wr_lines) = 2
        /\ Len(wr_lines[1]) = 4
        /\ Len(wr_lines[2]) = 4

\* C16 amended: those 8 words wrap into exactly 2 lines, the first of 6
\* words (650 px) and the second of 2 words.
C16_TwoLinesSixAndTwo ==
    EightWordsWrapped =>
        wr_lines = << <<1, 2, 3, 4, 5, 6>>, <<7, 8>> >>

C16_Witness ==
    /\ EightWordsWrapped
    /\ Len(wr_lines) = 2
    /\ LineWidth(wr_words, wr_lines[1]) <= 700
    /\ LineWidth(wr_words, Append(wr_lines[1], 7)) > 700

\* ------------------------------------------------------------------------
\* Properties of the end-to-end timing scenario (SpecScenario)
\* ------------------------------------------------------------------------
\* num / den seconds in milliseconds, rounded to the nearest
Millis(num, den) == (2000 * num + den) \div (2 * den)

\* num / den seconds in milliseconds, digits after the third dropped
MillisDown(num, den) == (1000 * num) \div den

\* the pre-scale durations of the scenario, ms
RawMillis ==
    [k \in 1..Len(scene_timing) |->
        Millis(RawDurations(scene_timing, total_duration)[k],
               SumSeq(scene_timing))]

\* the sum of the pre-scale durations, as a numerator over sum(weights)
RawSum == SumSeq(RawDurations(scene_timing, total_duration))

\* the final durations of the scenario, ms
FinalMillis ==
    [k \in 1..Len(image_durations) |-> Millis(image_durations[k], time_den)]

ScenarioResolved == ResolveCalled /\ num_images = 4 /\ total_duration = 30

\* C17 as stated: raw durations [4.0, 7.5, 8.571, 10.714] (sum 30.785),
\* final durations [3.898, 7.309, 8.354, 10.439], summing to 30.0 within
\* 0.01.
C17_ScenarioAsStated ==
    ScenarioResolved =>
        /\ RawMillis = <<4000, 7500, 8571, 10714>>
        /\ MillisDown(RawSum, SumSeq(scene_timing)) = 30785
        /\ FinalMillis = <<3898, 7309, 8354, 10439>>
        /\ Abs(SumSeq(image_durations) - 30 * time_den) * 100 <= time_den

\* C17 amended: raw durations [4.0, 7.5, 8.571, 10.714] (sum 30.785, the
\* digits after the third dropped), final durations [3.898, 7.309, 8.353, 10.441] to three decimals,
\* summing to 30.0 within 0.01.
C17_ScenarioDurations ==
    ScenarioResolved =>
        /\ RawMillis = <<4000, 7500, 8571, 10714>>
        /\ MillisDown(RawSum, SumSeq(scene_timing)) = 30785
        /\ FinalMillis = <<3898, 7309, 8353, 10441>>
        /\ Abs(SumSeq(image_durations) - 30 * time_den) * 100 <= time_den

C17_Witness ==
    /\ pc = "build"
    /\ scene_timing = <<3, 7, 8, 10>>
    /\ total_duration = 30
    /\ FloorTriggered(1)
    /\ ~FloorTriggered(2)
    /\ Len(image_durations) = 4

\* ------------------------------------------------------------------------
\* Properties of the profile selection (SpecDir)
\* ------------------------------------------------------------------------
\* the profile the animated clip c was built with
ProfileOfClip(c) == Profile(c.direction)

\* C21: the animation profile of the scene at position i is profile
\* (i mod 8) of the list of 8 profiles; it depends on nothing but the scene
\* index, so scenes i and i+8 get the same profile, whatever happened to
\* the scenes before them.
C21_ProfileIsIndexMod8 ==
    /\ Len(Directions) = 8
    /\ \A j \in 1..Len(kb_clips) :
         kb_clips[j].kind = "kb" =>
            ProfileOfClip(kb_clips[j]) = Directions[(kb_clips[j].scene % 8) + 1]
    /\ \A j \in 1..Len(kb_clips) : \A l \in 1..Len(kb_clips) :
         (/\ kb_clips[j].kind = "kb"
          /\ kb_clips[l].kind = "kb"
          /\ kb_clips[l].scene = kb_clips[j].scene + 8) =>
            ProfileOfClip(kb_clips[l]) = ProfileOfClip(kb_clips[j])

C21_Witness ==
    /\ pc = "composited"
    /\ scene_fault[2] = "image"
    /\ scene_fault[3] = "clip"
    /\ \E j \in 1..Len(kb_clips) : \E l \in 1..Len(kb_clips) :
         /\ kb_clips[j].kind = "kb"
         /\ kb_clips[j].scene = 0
         /\ kb_clips[l].kind = "kb"
         /\ kb_clips[l].scene = 8
         /\ l < 9
         /\ ProfileOfClip(kb_clips[l]) = Directions[1]

\* ------------------------------------------------------------------------
\* Timing properties of the scene clips (Spec)
\* ------------------------------------------------------------------------
\* the end of the play interval of clip c
ClipEnd(c) == c.start + c.duration

\* C27: for two consecutive scenes that are both placed, the clip of scene
\* i ends exactly CROSSFADE_DURATION after the clip of scene i+1 starts, on
\* the weighted and on the equal-distribution path, so the last
\* CROSSFADE_DURATION of scene i is the first CROSSFADE_DURATION of scene
\* i+1.
C27_CrossfadeAlignment ==
    \A j \in 1..Len(kb_clips) : \A l \in 1..Len(kb_clips) :
        kb_clips[l].scene = kb_clips[j].scene + 1 =>
            LET c == kb_clips[j]
                d == kb_clips[l]
                cf == Crossfade(time_den)
            IN  /\ c.start + image_durations[c.scene + 1] + cf - d.start = cf
                /\ ClipEnd(c) - d.start = cf
                /\ ClipEnd(c) - cf = d.start
                /\ d.start + cf <= ClipEnd(d)

C27_Witness ==
    /\ pc = "composited"
    /\ WeightedPath
    /\ \E k \in 1..num_images : FloorTriggered(k)
    /\ Len(kb_clips) = 3
    /\ kb_clips[2].kind = "static"
    /\ kb_clips[3].scene = 2
    /\ ClipEnd(kb_clips[2]) - kb_clips[3].start = Crossfade(time_den)
    /\ ClipEnd(kb_clips[1]) - kb_clips[2].start = Crossfade(time_den)

\* the scene loop is over and every scene has a clip
AllScenesPlaced ==
    /\ pc \in {"composited", "captioned", "mixed", "done"}
    /\ Len(kb_clips) = num_images

\* instant t (in units of 1/time_den s) lies in the play interval of a clip
Covered(t) ==
    \E j \in 1..Len(kb_clips) :
        kb_clips[j].start <= t /\ t < ClipEnd(kb_clips[j])

\* the instants at which a gap in the background could begin: 0 and the end
\* of every clip
GapStarts == {0} \cup {ClipEnd(kb_clips[j]) : j \in 1..Len(kb_clips)}

\* C28: on the weighted path with every scene placed, every instant of
\* [0, total_duration) lies in the play interval
\* [start_i, start_i + display_i + CROSSFADE_DURATION) of some scene clip.
C28_NoBackgroundGap ==
    (WeightedPath /\ AllScenesPlaced) =>
        \A t \in GapStarts :
            (t < total_duration * time_den) => Covered(t)

C28_Witness ==
    /\ WeightedPath
    /\ AllScenesPlaced
    /\ num_images = 3
    /\ FloorTriggered(1)
    /\ ~FloorTriggered(3)
    /\ kb_clips[2].kind = "static"
    /\ \E t \in GapStarts : t < total_duration * time_den /\ Covered(t)
    /\ ClipEnd(kb_clips[3]) >= total_duration * time_den

\* ------------------------------------------------------------------------
\* The rescale factor of _resolve_image_durations (Spec)
\* ------------------------------------------------------------------------
\* sum(raw), as a numerator over sum(weights)
RawTotal == SumSeq(RawDurations(scene_timing, total_duration))

\* some share is below MIN_IMAGE_DURATION
SomeFloorTriggered == \E k \in 1..Len(scene_timing) : FloorTriggered(k)

RECURSIVE Flatten(_)
\* the lines joined in order
Flatten(ls) == IF ls = <<>> THEN <<>> ELSE Head(ls) \o Flatten(Tail(ls))

\* C30: the lines produced, joined in order, are exactly the words of the
\* text in their order; no line is empty; every line of more than one word
\* measures at most max_width.
C30_WrapKeepsWords ==
    wr_state = "wrapped" =>
        /\ Flatten(wr_lines) = [k \in 1..Len(wr_words) |-> k]
        /\ \A j \in 1..Len(wr_lines) :
             /\ wr_lines[j] # <<>>
             /\ (Len(wr_lines[j]) > 1 =>
                    LineWidth(wr_words, wr_lines[j]) <= MaxLineWidth(wr_frame_w))

C30_Witness ==
    /\ wr_state = "wrapped"
    /\ Len(wr_lines) >= 3
    /\ \E j \in 1..Len(wr_lines) :
         /\ Len(wr_lines[j]) = 1
         /\ LineWidth(wr_words, wr_lines[j]) > MaxLineWidth(wr_frame_w)
    /\ \E j \in 1..Len(wr_lines) : Len(wr_lines[j]) > 1
    /\ wr_words[1] > MaxLineWidth(wr_frame_w)

\* ------------------------------------------------------------------------
\* Properties of brain.generate_script (SpecBrain)
\* ------------------------------------------------------------------------
\* generate_script has returned a script / has returned None
ScriptReturned == br_pc = "returned" /\ ~br_result.none

NoneReturned == br_pc = "returned" /\ br_result.none

\* C24: generate_script makes at most MAX_RETRIES LLM attempts; it returns
\* the script at the first attempt whose response parses and validates and
\* makes no further attempt; it returns None after MAX_RETRIES failed
\* attempts, and at once on a 'model not found' error.
C24_ReturnsAtFirstValidResponse ==
    /\ Len(br_log) <= MAX_RETRIES
    /\ \A k \in 1..Len(br_log) :
         /\ (br_log[k].validated =>
                k = Len(br_log) /\ ScriptReturned)
         /\ (br_log[k].kind = "model_not_found" =>
                k = Len(br_log) /\ NoneReturned)
    /\ (ScriptReturned =>
           Len(br_log) >= 1 /\ br_log[Len(br_log)].validated)
    /\ (NoneReturned =>
           \/ Len(br_log) = 0 /\ ~br_ollama
           \/ Len(br_log) >= 1
                /\ br_log[Len(br_log)].kind = "model_not_found"
           \/ Len(br_log) = MAX_RETRIES)

\* C25: every script returned has exactly 8 image_prompts and, if it has a
\* scene_timing list, exactly 8 entries in it, whatever lengths the
\* response had (any image_prompts length >= 3, any scene_timing length).
C25_EightPromptsEightWeights ==
    ScriptReturned =>
        /\ Len(br_result.prompts) = 8
        /\ (br_result.timing_present => Len(br_result.timing) = 8)
        /\ br_sizes.n_prompts >= 3

C25_Witness ==
    /\ ScriptReturned
    /\ Len(br_log) = 2
    /\ br_sizes.n_prompts > 8
    /\ br_sizes.n_timing < 8
    /\ br_result.timing_present
    /\ Len(br_result.prompts) = 8
    /\ br_result.timing[8] = PadWeight
    /\ br_result.timing[1] # PadWeight

\* ------------------------------------------------------------------------
\* Properties of brain.enrich_image_prompts (SpecEnrich)
\* ------------------------------------------------------------------------
\* the prompt holds a style keyword, on its own or inside the suffix
HasStyleKeyword(p) == \E j \in 1..Len(p.toks) : p.toks[j] \in {"K", "S"}

\* occurrences of ART_STYLE_SUFFIX in the prompt
SuffixCount(p) == Cardinality({j \in 1..Len(p.toks) : p.toks[j] = "S"})

\* enrich(p) has been computed for a list of strings
Enriched == en_state \in {"once", "twice"} /\ ~en_once.raised

\* C26 as stated: enrich(enrich(p)) = enrich(p), every output prompt
\* contains the art-style suffix at most once, and a prompt that already
\* contains a style keyword is returned unchanged.
C26_AtMostOneSuffix ==
    /\ (en_state = "twice" => en_twice = en_once)
    /\ (Enriched =>
          \A k \in 1..Len(en_input) :
             /\ SuffixCount(en_once.prompts[k]) <= 1
             /\ (HasStyleKeyword(en_input[k]) =>
                    en_once.prompts[k] = en_input[k]))

\* C26 amended: enrich(enrich(p)) = enrich(p); a prompt that already
\* contains a style keyword (the suffix included) is returned unchanged,
\* every other prompt gets the suffix exactly once; so an output prompt
\* contains the suffix more than once only if the input prompt already did.
C26_SuffixAddedAtMostOnce ==
    /\ (en_state = "twice" => en_twice = en_once)
    /\ (Enriched =>
          /\ Len(en_once.prompts) = Len(en_input)
          /\ \A k \in 1..Len(en_input) :
               /\ (HasStyleKeyword(en_input[k]) =>
                      en_once.prompts[k] = en_input[k])
               /\ (~HasStyleKeyword(en_input[k]) =>
                      SuffixCount(en_once.prompts[k]) = 1)
               /\ (SuffixCount(en_once.prompts[k]) > 1 =>
                      SuffixCount(en_input[k]) > 1))

C26_Witness ==
    /\ en_state = "twice"
    /\ Len(en_input) = 2
    /\ en_input[1].toks = <<"x", ".">>
    /\ en_once.prompts[1].toks = <<"x", ",", "S">>
    /\ en_input[2].toks = <<"S", "S">>
    /\ en_once.prompts[2] = en_input[2]
    /\ en_twice = en_once

\* ------------------------------------------------------------------------
\* Properties of voice.process_voice (SpecVoice)
\* ------------------------------------------------------------------------
\* C22: process_voice returns (audio_path, caption_chunks) with both
\* non-None, or (None, None); never an audio path with None chunks, for
\* any narration.
C22_BothOrNeither ==
    vo_pc = "returned" =>
        \/ vo_audio = "path" /\ ~vo_chunks.none
        \/ vo_audio = "none" /\ vo_chunks.none

\* ------------------------------------------------------------------------
\* Properties of main.run_pipeline (SpecPipeline)
\* ------------------------------------------------------------------------
StageOrder == <<"script", "voice", "images", "assembly">>

\* C23: the stages run in the order script, voice, images, assembly; a
\* stage is invoked only if every earlier one succeeded; the first failing
\* stage makes run_pipeline return False with no later stage invoked; with
\* skip_video the assembly stage is never invoked and the pipeline returns
\* True once stages 1-3 succeeded.
C23_StagesInOrderFailureReturnsFalse ==
    /\ Len(pl_invoked) <= 4
    /\ \A k \in 1..Len(pl_invoked) :
         /\ pl_invoked[k] = StageOrder[k]
         /\ (k < Len(pl_invoked) => ~pl_failed[k])
         /\ (pl_failed[k] => pl_pc = "returned" /\ pl_result = "false")
    /\ (pl_result = "true" => \A k \in 1..Len(pl_failed) : ~pl_failed[k])
    /\ (pl_skip_video =>
          /\ Len(pl_invoked) <= 3
          /\ ((pl_pc = "returned" /\ Len(pl_invoked) = 3 /\ ~pl_failed[3])
                 => pl_result = "true"))

=============================================================================
